---- MODULE Spec2Model ----
(***************************************************************************)
(* The VergeIO Packer builder: the build pipeline of Builder.Run           *)
(* (StepVMCreate, StepWaitForDiskImport, StepPowerOn, the communicator     *)
(* connect step, the provision step, StepShutdown), the cleanup of the     *)
(* steps, and the guest-agent address resolver StepWaitForIP.              *)
(***************************************************************************)
EXTENDS Integers, Sequences, FiniteSets, TLC

VARIABLES
    config,             \* Builder.config (VmConfig, GuestAgent, ShutdownCommand, timeouts)
    state,              \* multistep.BasicStateBag: a function from the keys present to values
    pc,                 \* position of the build inside Builder.Run
    step,               \* index in Steps of the step the runner is at
    deferred,           \* number of deferred step.Cleanup calls still to run
    cancelled,          \* ctx of Builder.Run is cancelled
    i,                  \* loop index of the running step (disk, NIC, tracked disk)
    retries,            \* retries of WaitForDiskImportCompletion for the current disk
    ticks,              \* ticks elapsed in the polling loop of the running step
    importDiskKeys,     \* local of StepVMCreate.Run
    importDiskConfigs,  \* local of StepVMCreate.Run
    serverVM,           \* the control plane: "none", "present" or "deleted"
    resizeLog,          \* history: what CheckAndResizeImportedDisks did with each disk
    log,                \* history: the calls issued and the steps run, in order
    result,             \* what Builder.Run returned
    polls,              \* StepWaitForIP: answers the guest agent still has to give
    discoveredIPs,      \* StepWaitForIP: local discoveredIPs
    lastDiscoveredIPs,  \* StepWaitForIP: local lastDiscoveredIPs
    settleRestarts,     \* StepWaitForIP: history, times the settle timeout was restarted
    vmAPIResp,          \* VMApi.GetVMs: the decoded answer of the API
    vms,                \* VMApi.GetVMs: local vms, the list returned
    fileSystem,         \* processCloudInitFiles: the files on disk, by path
    allContents,        \* processCloudInitFiles: local allContents
    rawCloudInitFiles   \* processCloudInitFiles: history, the entries as configured

vars == <<config, state, pc, step, deferred, cancelled, i, retries, ticks,
          importDiskKeys, importDiskConfigs, serverVM, resizeLog, log, result,
          polls, discoveredIPs, lastDiscoveredIPs, settleRestarts,
          vmAPIResp, vms, fileSystem, allContents, rawCloudInitFiles>>

buildVars == <<config, state, pc, step, deferred, cancelled, i, retries, ticks,
               importDiskKeys, importDiskConfigs, serverVM, resizeLog, log, result>>

ipVars == <<polls, discoveredIPs, lastDiscoveredIPs, settleRestarts>>

dsVars == <<vmAPIResp, vms>>

ciVars == <<fileSystem, allContents, rawCloudInitFiles>>

\* the variables of the build that the data source and the configuration leave alone
idleVars == <<state, step, deferred, cancelled, retries, ticks, importDiskKeys,
              importDiskConfigs, serverVM, resizeLog, log>>

\* no data source query and no configuration run is under way
NoQuery ==
    /\ vmAPIResp = <<>>
    /\ vms = <<>>
    /\ fileSystem = <<>>
    /\ allContents = <<>>
    /\ rawCloudInitFiles = <<>>

-----------------------------------------------------------------------------
(* Bounds of the model *)

MaxDisks == 2

MaxNics == 1

MaxPowerOnTicks == 2

MaxPolls == 5

MaxWaitTicks == 2

MaxSettleTicks == 2

MaxRestarts == 2

MaxVMs == 3

MaxEntries == 2

-----------------------------------------------------------------------------
(* Program constants *)

maxRetries == 20

GiB == 1073741824

-----------------------------------------------------------------------------
(* The state bag *)

Put(st, k, v) == [x \in (DOMAIN st) \cup {k} |-> IF x = k THEN v ELSE st[x]]

GetOk(st, k) == k \in DOMAIN st

\* a call or a step event of the history
Ev(op, arg, res) == [op |-> op, arg |-> arg, res |-> res, machine |-> 0]

LogCall(l, op, arg, res) == Append(l, Ev(op, arg, res))

\* a call that carries or answers a machine id
LogMachine(l, op, arg, res, machine) ==
    Append(l, [op |-> op, arg |-> arg, res |-> res, machine |-> machine])

\* polls: a run of reads of the same value keeps the answer of its last read
LogPoll(l, op, arg, res) ==
    IF Len(l) > 0 /\ l[Len(l)].op = op /\ l[Len(l)].arg = arg
       THEN [l EXCEPT ![Len(l)] = Ev(op, arg, res)]
       ELSE Append(l, Ev(op, arg, res))

VmKey == "vm1"

\* disk.Name and nic.Name of the configuration, by position
DiskNameOf(n) == <<"root", "data", "scratch", "backup">>[n]

NicNameOf(n) == <<"nic_a", "nic_b", "nic_c">>[n]

DiskKeyOf(n) == <<"disk1", "disk2", "disk3", "disk4">>[n]

MachineIds == {0, 7}

-----------------------------------------------------------------------------
(* The pipeline of Builder.Run *)

Steps == <<"StepVMCreate", "StepWaitForDiskImport", "StepPowerOn",
           "StepConnect", "StepProvision", "StepShutdown">>

\* a runner that drops the machine id when a step continues
ContinueDropsMachineId(st, l) ==
    /\ state' = [k \in (DOMAIN st) \ {"machine_id"} |-> st[k]]
    /\ log' = LogCall(l, "Return", Steps[step], "continue")
    /\ IF step = Len(Steps)
          THEN pc' = "cleanup" /\ step' = step
          ELSE pc' = "dispatch" /\ step' = step + 1

\* a step returned multistep.ActionContinue
Continue(st, l) ==
    /\ state' = st
    /\ log' = LogCall(l, "Return", Steps[step], "continue")
    /\ IF step = Len(Steps)
          THEN pc' = "cleanup" /\ step' = step
          ELSE pc' = "dispatch" /\ step' = step + 1

\* a runner that goes on with the next step after a halt
HaltKeepsRunning(st, l) ==
    /\ state' = Put(st, "halted", TRUE)
    /\ log' = LogCall(l, "Return", Steps[step], "halt")
    /\ IF step = Len(Steps)
          THEN pc' = "cleanup" /\ step' = step
          ELSE pc' = "dispatch" /\ step' = step + 1

\* a step returned multistep.ActionHalt
Halt(st, l) ==
    /\ state' = Put(st, "halted", TRUE)
    /\ log' = LogCall(l, "Return", Steps[step], "halt")
    /\ pc' = "cleanup"
    /\ step' = step

\* the runner starts the next step, unless the context is cancelled
Dispatch ==
    /\ pc = "dispatch"
    /\ IF cancelled
          THEN /\ state' = Put(state, "cancelled", TRUE)
               /\ pc' = "cleanup"
               /\ UNCHANGED <<deferred, log>>
          ELSE /\ deferred' = step
               /\ pc' = Steps[step]
               /\ log' = LogCall(log, "Run", Steps[step], "")
               /\ state' = state
    /\ UNCHANGED <<config, step, cancelled, i, retries, ticks, importDiskKeys,
                   importDiskConfigs, serverVM, resizeLog, result>>

\* the caller cancels the build
Cancel ==
    /\ pc \notin {"finish", "done"}
    /\ ~cancelled
    /\ cancelled' = TRUE
    /\ UNCHANGED <<config, state, pc, step, deferred, i, retries, ticks,
                   importDiskKeys, importDiskConfigs, serverVM, resizeLog, log, result>>

-----------------------------------------------------------------------------
(* StepVMCreate.Run *)

Disks == config.VmDiskConfigs

Nics == config.VmNicConfigs

CreateVM ==
    /\ pc = "StepVMCreate"
    /\ \E r \in {"post_failed", "read_failed", "ok"}, m \in MachineIds :
         /\ r # "ok" => m = 0
         /\ CASE r = "post_failed" ->
                   /\ Halt(Put(state, "error", "create_vm"),
                           LogCall(log, "CreateVM", "", "error"))
                   /\ UNCHANGED <<serverVM, resizeLog, i>>
              [] r = "read_failed" ->
                   /\ serverVM' = "present"
                   /\ Halt(Put(state, "error", "create_vm"),
                           LogCall(LogCall(log, "CreateVM", VmKey, "created"),
                                   "ReadVM", VmKey, "error"))
                   /\ UNCHANGED i
              [] r = "ok" /\ m = 0 ->
                   /\ serverVM' = "present"
                   /\ Halt(Put(state, "error", "machine_id"),
                           LogMachine(LogCall(log, "CreateVM", VmKey, "created"),
                                      "ReadVM", VmKey, "ok", m))
                   /\ UNCHANGED i
              [] r = "ok" /\ m # 0 ->
                   /\ serverVM' = "present"
                   /\ state' = Put(Put(state, "machine_id", m), "vm_id", VmKey)
                   /\ log' = LogMachine(LogCall(log, "CreateVM", VmKey, "created"),
                                        "ReadVM", VmKey, "ok", m)
                   /\ pc' = "create_disks"
                   /\ i' = 1
                   /\ UNCHANGED step
    /\ importDiskKeys' = <<>>
    /\ importDiskConfigs' = <<>>
    /\ UNCHANGED <<config, deferred, cancelled, retries, ticks, resizeLog, result>>

\* an error that does not tell which resource failed
AnonymousError(kind, name) == "create_failed"

\* fmt.Errorf("error creating disk '%s': %w", disk.Name, err), and the same for a NIC
ResourceError(kind, name) == kind \o " " \o name

\* the Machine field of diskData and nicData is left unset
NoMachine(st) == 0

\* Machine: machineID, the id StepVMCreate.Run stored as machine_id
machineID(st) == st["machine_id"]

\* every disk is tracked for the import wait
AnyMediaNeedsImportWait(media) == TRUE

\* if disk.Media == "import"
NeedsImportWait(media) == media = "import"

\* a tracker that puts the newest configuration first
TrackConfigFirst(configs, diskData) == <<diskData>> \o configs

\* importDiskConfigs = append(importDiskConfigs, diskData)
TrackConfig(configs, diskData) == Append(configs, diskData)

CreateDisk ==
    /\ pc = "create_disks"
    /\ i <= Len(Disks)
    /\ \E ok \in BOOLEAN :
         IF ok
            THEN /\ log' = LogMachine(log, "CreateDisk", DiskKeyOf(i), Disks[i].Media,
                                         machineID(state))
                 /\ IF NeedsImportWait(Disks[i].Media)
                       THEN /\ importDiskKeys' = Append(importDiskKeys, DiskKeyOf(i))
                            /\ importDiskConfigs' = TrackConfig(importDiskConfigs, Disks[i])
                       ELSE UNCHANGED <<importDiskKeys, importDiskConfigs>>
                 /\ i' = i + 1
                 /\ UNCHANGED <<state, pc, step>>
            ELSE /\ Halt(Put(Put(state, "error", ResourceError("disk", Disks[i].Name)),
                             "vm_creation_failed", TRUE),
                         LogMachine(log, "CreateDisk", Disks[i].Name, "error",
                                    machineID(state)))
                 /\ UNCHANGED <<i, importDiskKeys, importDiskConfigs>>
    /\ UNCHANGED <<config, deferred, cancelled, retries, ticks, serverVM, resizeLog, result>>

StoreImportDisks ==
    /\ pc = "create_disks"
    /\ i > Len(Disks)
    /\ state' = IF Len(importDiskKeys) > 0
                   THEN Put(Put(state, "import_disk_keys", importDiskKeys),
                            "import_disk_configs", importDiskConfigs)
                   ELSE state
    /\ pc' = "create_nics"
    /\ i' = 1
    /\ UNCHANGED <<config, step, deferred, cancelled, retries, ticks, importDiskKeys,
                   importDiskConfigs, serverVM, resizeLog, log, result>>

CreateNic ==
    /\ pc = "create_nics"
    /\ i <= Nics
    /\ \E ok \in BOOLEAN :
         IF ok
            THEN /\ log' = LogMachine(log, "CreateNic", NicNameOf(i), "created",
                                         machineID(state))
                 /\ i' = i + 1
                 /\ UNCHANGED <<state, pc, step>>
            ELSE /\ Halt(Put(Put(state, "error", ResourceError("nic", NicNameOf(i))),
                             "vm_creation_failed", TRUE),
                         LogMachine(log, "CreateNic", NicNameOf(i), "error",
                                    machineID(state)))
                 /\ UNCHANGED i
    /\ UNCHANGED <<config, deferred, cancelled, retries, ticks, importDiskKeys,
                   importDiskConfigs, serverVM, resizeLog, result>>

VMCreateDone ==
    /\ pc = "create_nics"
    /\ i > Nics
    /\ Continue(state, log)
    /\ UNCHANGED <<config, deferred, cancelled, i, retries, ticks, importDiskKeys,
                   importDiskConfigs, serverVM, resizeLog, result>>

-----------------------------------------------------------------------------
(* StepWaitForDiskImport.Run, with DriveApi.WaitForDiskImportCompletion and *)
(* DriveApi.CheckAndResizeImportedDisks                                    *)

ImportStatuses == {"importing", "Importing", "online"}

\* strings.ToLower on the status values of the model
ToLower(s) == IF s = "Importing" THEN "importing" ELSE s

\* bytes a disk may report after its import
DiskBytes == {GiB - 1, GiB, GiB + 1}

\* answers of DriveApi.ReadDisk
ReadDiskAnswers ==
    {[ok |-> FALSE, DiskSize |-> 0]} \cup {[ok |-> TRUE, DiskSize |-> b] : b \in DiskBytes}

\* every answer ends the polling of a disk
AnyStatusComplete(status) == TRUE

\* a comparison of the status as it is spelled
ImportCompleteAsSpelled(status) == status # "importing"

\* fmt.Errorf("disk %s failed to complete import after %d retries, last status: %s", ...)
ImportTimeoutError(diskKey, status) == "import_timeout " \o diskKey \o " " \o status

\* strings.ToLower(status) != "importing"
ImportComplete(status) == ToLower(status) # "importing"

TrackedKeys == IF GetOk(state, "import_disk_keys") THEN state["import_disk_keys"] ELSE <<>>

TrackedConfigs ==
    IF GetOk(state, "import_disk_configs") THEN state["import_disk_configs"] ELSE <<>>

\* a waiter that never skips
ImportWaitNeverSkipped(keys) == FALSE

\* importDiskKeysInterface == nil, or !ok || len(importDiskKeys) == 0
NoImportDisks(keys) == Len(keys) = 0

ImportWaitStart ==
    /\ pc = "StepWaitForDiskImport"
    /\ IF NoImportDisks(TrackedKeys)
          THEN /\ Continue(state, log)
               /\ UNCHANGED <<i, retries>>
          ELSE /\ pc' = "import_wait"
               /\ i' = 1
               /\ retries' = 0
               /\ log' = LogCall(log, "Sleep", "", "import_settle")
               /\ UNCHANGED <<state, step>>
    /\ UNCHANGED <<config, deferred, cancelled, ticks, importDiskKeys,
                   importDiskConfigs, serverVM, resizeLog, result>>

\* one iteration of the retry loop of WaitForDiskImportCompletion for disk i
CheckDiskImportStatus ==
    /\ pc = "import_wait"
    /\ \E r \in {"error"} \cup ImportStatuses :
         LET l == LogPoll(log, "GetDiskImportStatus", TrackedKeys[i], r) IN
         IF r = "error"
            THEN /\ Halt(Put(state, "error", "import_status"), l)
                 /\ UNCHANGED <<i, retries>>
            ELSE IF ImportComplete(r)
                    THEN /\ log' = l
                         /\ retries' = 0
                         /\ IF i = Len(TrackedKeys)
                               THEN pc' = "resize" /\ i' = 1
                               ELSE pc' = pc /\ i' = i + 1
                         /\ UNCHANGED <<state, step>>
                    ELSE IF retries + 1 >= maxRetries
                            THEN /\ Halt(Put(state, "error",
                                             ImportTimeoutError(TrackedKeys[i], r)), l)
                                 /\ UNCHANGED <<i, retries>>
                            ELSE /\ log' = l
                                 /\ retries' = retries + 1
                                 /\ UNCHANGED <<state, pc, step, i>>
    /\ UNCHANGED <<config, deferred, cancelled, ticks, importDiskKeys,
                   importDiskConfigs, serverVM, resizeLog, result>>

\* no disk is ever found to differ from its requested size
NeverMismatch(currentDiskSize, requestedSizeGB) == FALSE

\* a comparison of the size in bytes with the requested size in bytes
SizeMismatchInBytes(currentDiskSize, requestedSizeGB) ==
    currentDiskSize # requestedSizeGB * GiB

\* currentSizeGB := currentDisk.DiskSize / (1024 * 1024 * 1024), compared with the
\* requested size
SizeMismatch(currentDiskSize, requestedSizeGB) ==
    currentDiskSize \div GiB # requestedSizeGB

\* the "disksize" that UpdateDiskSize sends, in bytes
ResizeTarget(requestedSizeGB) == requestedSizeGB * GiB

\* what CheckAndResizeImportedDisks did with one disk
Resized(key, requested, read, current, resize, target) ==
    [key |-> key, requested |-> requested, read |-> read, current |-> current,
     resize |-> resize, target |-> target]

\* one iteration of the loop of CheckAndResizeImportedDisks for disk i
CheckAndResizeDisk ==
    /\ pc = "resize"
    /\ Len(TrackedConfigs) > 0
    /\ i <= Len(TrackedKeys)
    /\ IF i > Len(TrackedConfigs)
          THEN /\ i' = i + 1
               /\ UNCHANGED <<state, pc, step, log, resizeLog>>
          ELSE \E rd \in ReadDiskAnswers, okResize \in BOOLEAN :
                 LET requestedSizeGB == TrackedConfigs[i].DiskSize
                     key == TrackedKeys[i]
                     r == rd.DiskSize IN
                 IF ~rd.ok
                    THEN /\ okResize
                         /\ Halt(Put(state, "error", "resize"),
                                 LogCall(log, "ReadDisk", key, "error"))
                         /\ resizeLog' = Append(resizeLog,
                                Resized(key, requestedSizeGB, "error", 0, "none", 0))
                         /\ UNCHANGED i
                    ELSE IF SizeMismatch(r, requestedSizeGB)
                            THEN IF okResize
                                    THEN /\ log' = LogCall(LogCall(log, "ReadDisk", key, "ok"),
                                                           "ResizeDisk", key, "ok")
                                         /\ resizeLog' = Append(resizeLog,
                                                Resized(key, requestedSizeGB, "ok", r, "ok",
                                                        ResizeTarget(requestedSizeGB)))
                                         /\ i' = i + 1
                                         /\ UNCHANGED <<state, pc, step>>
                                    ELSE /\ Halt(Put(state, "error", "resize"),
                                                 LogCall(LogCall(log, "ReadDisk", key, "ok"),
                                                         "ResizeDisk", key, "error"))
                                         /\ resizeLog' = Append(resizeLog,
                                                Resized(key, requestedSizeGB, "ok", r, "error",
                                                        ResizeTarget(requestedSizeGB)))
                                         /\ UNCHANGED i
                            ELSE /\ okResize
                                 /\ log' = LogCall(log, "ReadDisk", key, "ok")
                                 /\ resizeLog' = Append(resizeLog,
                                        Resized(key, requestedSizeGB, "ok", r, "none", 0))
                                 /\ i' = i + 1
                                 /\ UNCHANGED <<state, pc, step>>
    /\ UNCHANGED <<config, deferred, cancelled, retries, ticks, importDiskKeys,
                   importDiskConfigs, serverVM, result>>

ImportWaitDone ==
    /\ pc = "resize"
    /\ Len(TrackedConfigs) = 0 \/ i > Len(TrackedKeys)
    /\ Continue(state, log)
    /\ UNCHANGED <<config, deferred, cancelled, i, retries, ticks, importDiskKeys,
                   importDiskConfigs, serverVM, resizeLog, result>>

-----------------------------------------------------------------------------
(* StepPowerOn.Run *)

\* Contents of a cloud-init file is a list of whitespace-separated tokens:
\*   "cidr"  d.d.d.d/nn at the start of the token (the pattern matches),
\*   "ip"    an address without /nn,
\*   "glued" d.d.d.d/nn preceded by other characters of the same token,
\*   "word"  anything else.
RECURSIVE FirstCidr(_, _)
FirstCidr(tokens, n) ==
    IF n > Len(tokens) THEN ""
    ELSE IF tokens[n].kind = "cidr" THEN tokens[n].addr
    ELSE FirstCidr(tokens, n + 1)

\* "" stands for the error "no static IP address found"
RECURSIVE ExtractFrom(_, _)
ExtractFrom(files, n) ==
    IF n > Len(files) THEN ""
    ELSE IF files[n].Name = "network-config" /\ FirstCidr(files[n].Contents, 1) # ""
            THEN FirstCidr(files[n].Contents, 1)
            ELSE ExtractFrom(files, n + 1)

\* an extraction that reads the first network-config file only
extractFromFirstFileOnly(cfg) ==
    LET files == cfg.CloudInitFiles
        idx == {n \in DOMAIN files : files[n].Name = "network-config"} IN
    IF idx = {} THEN ""
    ELSE FirstCidr(files[CHOOSE n \in idx : \A m \in idx : n <= m].Contents, 1)

extractIPFromCloudInit(cfg) == ExtractFrom(cfg.CloudInitFiles, 1)

\* a power-on step that goes on without any way to find an address
BootWaitWithoutCheck(st, l) ==
    LET st1 == Put(st, "vm_powered_on", TRUE)
        staticIP == extractIPFromCloudInit(config) IN
    IF staticIP = ""
       THEN Continue(st1, l)
       ELSE Continue(Put(Put(st1, "host", staticIP), "discovered_ips", <<staticIP>>), l)

\* the code of StepPowerOn.Run from the label bootWait on
BootWait(st, l) ==
    LET st1 == Put(st, "vm_powered_on", TRUE)
        staticIP == extractIPFromCloudInit(config) IN
    IF staticIP = ""
       THEN IF config.GuestAgent
               THEN Continue(st1, l)
               ELSE Halt(Put(st1, "error", "no_ip_discovery_method"), l)
       ELSE Continue(Put(Put(st1, "host", staticIP), "discovered_ips", <<staticIP>>), l)

PowerOnVM ==
    /\ pc = "StepPowerOn"
    /\ IF ~GetOk(state, "vm_id")
          THEN /\ Halt(Put(state, "error", "no_vm_id"), log)
               /\ UNCHANGED ticks
          ELSE \E ok \in BOOLEAN :
                 IF ok
                    THEN /\ log' = LogCall(log, "PowerAction", state["vm_id"], "poweron")
                         /\ pc' = "power_poll"
                         /\ ticks' = 0
                         /\ UNCHANGED <<state, step>>
                    ELSE /\ Halt(Put(state, "error", "power_on_call"),
                                 LogCall(log, "PowerAction", state["vm_id"], "poweron_error"))
                         /\ UNCHANGED ticks
    /\ UNCHANGED <<config, deferred, cancelled, i, retries, importDiskKeys,
                   importDiskConfigs, serverVM, resizeLog, result>>

\* case <-timeoutCtx.Done(): the timeout has passed or the build is cancelled
PowerOnTimeout ==
    /\ pc = "power_poll"
    /\ cancelled \/ ticks + 1 >= config.PowerOnTicks
    /\ Halt(Put(Put(state, "error", "power_on_timeout"), "vm_power_on_failed", TRUE), log)
    /\ UNCHANGED <<config, deferred, cancelled, i, retries, ticks, importDiskKeys,
                   importDiskConfigs, serverVM, resizeLog, result>>

\* a check that takes a missing running flag for a running VM
IsRunningOrUnknown(r) == r \in {"true", "nil"}

\* err == nil, then isRunning != nil && *isRunning
IsRunning(r) == r = "true"

\* case <-ticker.C: one read of the running state
PowerOnTick ==
    /\ pc = "power_poll"
    /\ ticks < config.PowerOnTicks
    /\ \E r \in {"error", "nil", "false", "true"} :
         LET l == LogPoll(log, "GetRunningState", state["vm_id"], r) IN
         IF IsRunning(r)
            THEN /\ BootWait(state, l)
                 /\ UNCHANGED ticks
            ELSE /\ log' = l
                 /\ ticks' = ticks + 1
                 /\ UNCHANGED <<state, pc, step>>
    /\ UNCHANGED <<config, deferred, cancelled, i, retries, importDiskKeys,
                   importDiskConfigs, serverVM, resizeLog, result>>

-----------------------------------------------------------------------------
(* The steps of the plugin SDK: communicator.StepConnect with             *)
(* Builder.getHostFunc, and commonsteps.StepProvision                      *)

\* "" stands for the error "no host found in state"
getHostFunc(st) == IF GetOk(st, "host") THEN st["host"] ELSE ""

StepConnect ==
    /\ pc = "StepConnect"
    /\ LET host == getHostFunc(state) IN
       IF host = ""
          THEN Halt(Put(state, "error", "no_host"), LogCall(log, "Host", "", "error"))
          ELSE \E ok \in BOOLEAN :
                 IF ok
                    THEN Continue(Put(state, "communicator", "comm"),
                                  LogCall(log, "Connect", host, "connected"))
                    ELSE Halt(Put(state, "error", "connect"),
                              LogCall(log, "Connect", host, "error"))
    /\ UNCHANGED <<config, deferred, cancelled, i, retries, ticks, importDiskKeys,
                   importDiskConfigs, serverVM, resizeLog, result>>

StepProvision ==
    /\ pc = "StepProvision"
    /\ \E ok \in BOOLEAN :
         IF ok
            THEN Continue(state, LogCall(log, "Provision", "", "ok"))
            ELSE Halt(Put(state, "error", "provision"), LogCall(log, "Provision", "", "error"))
    /\ UNCHANGED <<config, deferred, cancelled, i, retries, ticks, importDiskKeys,
                   importDiskConfigs, serverVM, resizeLog, result>>

-----------------------------------------------------------------------------
(* StepShutdown.Run *)

vmIdStr == IF GetOk(state, "vm_id") THEN state["vm_id"] ELSE ""

\* a forced shutdown that fails the build when the power-off call fails
forcedShutdownHaltsOnError(l, ok) ==
    IF vmIdStr = ""
       THEN Continue(state, l)
       ELSE IF ok
               THEN Continue(Put(state, "vm_shutdown_completed", TRUE),
                             LogCall(l, "PowerAction", vmIdStr, "kill"))
               ELSE Halt(Put(state, "error", "power_off"),
                         LogCall(l, "PowerAction", vmIdStr, "kill_error"))

\* a forced shutdown that repeats the power-off call after a failure
forcedShutdownRetries(l, ok) ==
    IF vmIdStr = ""
       THEN Continue(state, l)
       ELSE IF ok
               THEN Continue(Put(state, "vm_shutdown_completed", TRUE),
                             LogCall(l, "PowerAction", vmIdStr, "kill"))
               ELSE Continue(state, LogCall(LogCall(l, "PowerAction", vmIdStr, "kill_error"),
                                            "PowerAction", vmIdStr, "kill_error"))

\* StepShutdown.performForcedShutdown; ok is the answer of PowerOffVM
performForcedShutdown(l, ok) ==
    IF vmIdStr = ""
       THEN Continue(state, l)
       ELSE IF ok
               THEN Continue(Put(state, "vm_shutdown_completed", TRUE),
                             LogCall(l, "PowerAction", vmIdStr, "kill"))
               ELSE Continue(state, LogCall(l, "PowerAction", vmIdStr, "kill_error"))

\* a shutdown step that never skips
ShutdownNeverSkipped(command) == FALSE

\* if s.Command == ""
NoShutdownCommand(command) == command = ""

\* Phase 1: the command check and comm.Start
ShutdownStart ==
    /\ pc = "StepShutdown"
    /\ IF NoShutdownCommand(config.ShutdownCommand)
          THEN Continue(state, log)
          ELSE \E started \in BOOLEAN, ok \in BOOLEAN :
                 IF started
                    THEN /\ ok
                         /\ log' = LogCall(log, "StartCommand", config.ShutdownCommand, "started")
                         /\ pc' = "shutdown_wait"
                         /\ UNCHANGED <<state, step>>
                    ELSE performForcedShutdown(
                             LogCall(log, "StartCommand", config.ShutdownCommand, "error"), ok)
    /\ UNCHANGED <<config, deferred, cancelled, i, retries, ticks, importDiskKeys,
                   importDiskConfigs, serverVM, resizeLog, result>>

\* Phase 2, case <-timeoutCtx.Done(): the command did not finish in time, or the
\* build is cancelled
ShutdownTimeout ==
    /\ pc = "shutdown_wait"
    /\ \E ok \in BOOLEAN :
         performForcedShutdown(LogCall(log, "WaitCommand", "", "timeout"), ok)
    /\ UNCHANGED <<config, deferred, cancelled, i, retries, ticks, importDiskKeys,
                   importDiskConfigs, serverVM, resizeLog, result>>

\* Phase 2, case <-cmdComplete
ShutdownCommandDone ==
    /\ pc = "shutdown_wait"
    /\ \E exit \in {0, 1}, ok \in BOOLEAN :
         IF exit = 0
            THEN /\ ok
                 /\ log' = LogCall(log, "WaitCommand", "", "exit0")
                 /\ pc' = "shutdown_drain"
                 /\ UNCHANGED <<state, step>>
            ELSE performForcedShutdown(LogCall(log, "WaitCommand", "", "exit1"), ok)
    /\ UNCHANGED <<config, deferred, cancelled, i, retries, ticks, importDiskKeys,
                   importDiskConfigs, serverVM, resizeLog, result>>

\* Phase 3, case <-ctx.Done()
ShutdownDrainCancelled ==
    /\ pc = "shutdown_drain"
    /\ cancelled
    /\ Halt(state, log)
    /\ UNCHANGED <<config, deferred, cancelled, i, retries, ticks, importDiskKeys,
                   importDiskConfigs, serverVM, resizeLog, result>>

\* a shutdown that goes to the verification without the drain
NoDrain(l) == l

\* shutdownTimer := time.NewTimer(shutdownWait), case <-shutdownTimer.C
Drain(l) == LogCall(l, "Sleep", "", "drain")

\* Phase 3, case <-shutdownTimer.C, and Phase 4
ShutdownVerify ==
    /\ pc = "shutdown_drain"
    /\ LET l == Drain(log) IN
       IF vmIdStr # ""
          THEN \E r \in {"error", "nil", "false", "true"} :
                 Continue(Put(state, "vm_shutdown_completed", TRUE),
                          LogCall(l, "GetRunningState", vmIdStr, r))
          ELSE Continue(Put(state, "vm_shutdown_completed", TRUE), l)
    /\ UNCHANGED <<config, deferred, cancelled, i, retries, ticks, importDiskKeys,
                   importDiskConfigs, serverVM, resizeLog, result>>

-----------------------------------------------------------------------------
(* Cleanup of the steps, in reverse order, and the end of Builder.Run *)

\* a cleanup that deletes every VM it knows of
NeedsCleanupOfAnyVM(st) == GetOk(st, "vm_id")

\* a cleanup that reads the flag of the power-on step instead
NeedsCleanupOnPowerOnFlag(st) ==
    GetOk(st, "vm_id") /\ GetOk(st, "vm_power_on_failed") /\ st["vm_power_on_failed"]

\* vmIdExists && failureExists && creationFailed.(bool)
NeedsCleanup(st) ==
    GetOk(st, "vm_id") /\ GetOk(st, "vm_creation_failed") /\ st["vm_creation_failed"]

StepVMCreateCleanup ==
    /\ pc = "cleanup"
    /\ deferred > 0
    /\ Steps[deferred] = "StepVMCreate"
    /\ IF NeedsCleanup(state)
          THEN IF ~GetOk(state, "cluster_config")
                  THEN UNCHANGED <<log, serverVM, resizeLog>>
                  ELSE \E ok \in BOOLEAN :
                         /\ log' = LogCall(log, "DeleteVM", state["vm_id"],
                                           IF ok THEN "deleted" ELSE "error")
                         /\ serverVM' = IF ok THEN "deleted" ELSE serverVM
          ELSE UNCHANGED <<log, serverVM, resizeLog>>
    /\ deferred' = deferred - 1
    /\ UNCHANGED <<config, state, pc, step, cancelled, i, retries, ticks,
                   importDiskKeys, importDiskConfigs, resizeLog, result>>

OtherCleanup ==
    /\ pc = "cleanup"
    /\ deferred > 0
    /\ Steps[deferred] # "StepVMCreate"
    /\ deferred' = deferred - 1
    /\ UNCHANGED <<config, state, pc, step, cancelled, i, retries, ticks,
                   importDiskKeys, importDiskConfigs, serverVM, resizeLog, log, result>>

CleanupDone ==
    /\ pc = "cleanup"
    /\ deferred = 0
    /\ pc' = "finish"
    /\ UNCHANGED <<config, state, step, deferred, cancelled, i, retries, ticks,
                   importDiskKeys, importDiskConfigs, serverVM, resizeLog, log, result>>

Finish ==
    /\ pc = "finish"
    /\ result' = IF GetOk(state, "error")
                    THEN [kind |-> "error", err |-> state["error"]]
                    ELSE [kind |-> "artifact", err |-> ""]
    /\ pc' = "done"
    /\ UNCHANGED <<config, state, step, deferred, cancelled, i, retries, ticks,
                   importDiskKeys, importDiskConfigs, serverVM, resizeLog, log>>

-----------------------------------------------------------------------------

MediaModes == {"disk", "import"}

DiskConfigs == [Media : MediaModes, DiskSize : {1}]

\* the disks of a configuration, each with its name
DiskLists ==
    UNION {{[n \in 1..k |-> [Name |-> DiskNameOf(n), Media |-> f[n].Media,
                             DiskSize |-> f[n].DiskSize]] : f \in [1..k -> DiskConfigs]} :
              k \in 0..MaxDisks}

Tok(kind, addr) == [kind |-> kind, addr |-> addr]

File(name, contents) == [Name |-> name, Contents |-> contents]

CloudInitChoices ==
    { <<>>,
      <<File("network-config", <<Tok("word", ""), Tok("cidr", "10.0.0.5")>>)>>,
      <<File("user-data", <<Tok("cidr", "10.0.0.5")>>)>>,
      <<File("network-config", <<Tok("ip", "10.0.0.5"), Tok("glued", "10.0.0.6")>>),
        File("network-config", <<Tok("cidr", "10.0.0.6"), Tok("cidr", "10.0.0.5")>>)>> }

Init ==
    /\ config \in [VmDiskConfigs : DiskLists,
                   VmNicConfigs : 0..MaxNics,
                   CloudInitFiles : CloudInitChoices,
                   GuestAgent : BOOLEAN,
                   ShutdownCommand : {"", "shutdown -P now"},
                   PowerOnTicks : {MaxPowerOnTicks}]
    /\ state = [k \in {"cluster_config", "config"} |-> "set"]
    /\ pc = "dispatch"
    /\ step = 1
    /\ deferred = 0
    /\ cancelled = FALSE
    /\ i = 1
    /\ retries = 0
    /\ ticks = 0
    /\ importDiskKeys = <<>>
    /\ importDiskConfigs = <<>>
    /\ serverVM = "none"
    /\ resizeLog = <<>>
    /\ log = <<>>
    /\ result = [kind |-> "none", err |-> ""]
    /\ polls = <<>>
    /\ discoveredIPs = <<>>
    /\ lastDiscoveredIPs = <<>>
    /\ settleRestarts = 0
    /\ NoQuery

Next ==
    \/ /\ \/ Dispatch
          \/ Cancel
          \/ CreateVM
          \/ CreateDisk
          \/ StoreImportDisks
          \/ CreateNic
          \/ VMCreateDone
          \/ ImportWaitStart
          \/ CheckDiskImportStatus
          \/ CheckAndResizeDisk
          \/ ImportWaitDone
          \/ PowerOnVM
          \/ PowerOnTimeout
          \/ PowerOnTick
          \/ StepConnect
          \/ StepProvision
          \/ ShutdownStart
          \/ ShutdownTimeout
          \/ ShutdownCommandDone
          \/ ShutdownDrainCancelled
          \/ ShutdownVerify
          \/ StepVMCreateCleanup
          \/ OtherCleanup
          \/ CleanupDone
          \/ Finish
       /\ UNCHANGED ipVars
       /\ UNCHANGED dsVars
       /\ UNCHANGED ciVars

Spec == Init /\ [][Next]_vars

-----------------------------------------------------------------------------
(* Properties of the build pipeline *)

Finished == pc \in {"finish", "done"}

Entries(op) == {n \in DOMAIN log : log[n].op = op}

Has(op, res) == \E n \in DOMAIN log : log[n].op = op /\ log[n].res = res

Ran(name) == \E n \in DOMAIN log : log[n].op = "Run" /\ log[n].arg = name

Returned(name, action) ==
    \E n \in DOMAIN log : log[n] = Ev("Return", name, action)

\* the calls to the control plane and to the guest (no step events, no waits)
IsCall(e) == e.op \notin {"Run", "Return", "Sleep"}

\* entries of a failed disk or NIC creation
CreateFailures ==
    {n \in DOMAIN log : log[n].op \in {"CreateDisk", "CreateNic"} /\ log[n].res = "error"}

\* C1: when StepVMCreate failed on a disk or NIC creation, the calls issued after
\* the failed creation are exactly one DeleteVM, for the stored vm_id: no other
\* delete call is made.
C1_RollbackIsOneDeleteVM ==
    (Finished /\ CreateFailures # {}) =>
        \A f \in CreateFailures :
            LET after == {n \in DOMAIN log : n > f /\ IsCall(log[n])} IN
            /\ Cardinality(after) = 1
            /\ \A n \in after : log[n].op = "DeleteVM" /\ log[n].arg = state["vm_id"]
            /\ Cardinality(Entries("DeleteVM")) = 1

\* a build that failed on its second disk, after one disk was created, and rolled back
C1_Witness ==
    /\ pc = "done"
    /\ \E f \in CreateFailures : f > 1 /\ log[f - 1].op = "CreateDisk"
                                 /\ log[f - 1].res # "error" /\ log[f].op = "CreateDisk"
    /\ Entries("DeleteVM") # {}

\* C2: when the power-on step timed out, the cleanup of the build deletes the VM
\* (here for a build that was not cancelled).
C2_PowerOnFailureRollsBack ==
    (Finished /\ ~cancelled /\ GetOk(state, "vm_power_on_failed")) =>
        Entries("DeleteVM") # {}

\* C3: a run of StepVMCreate that continued stored vm_id and a non-zero machine_id;
\* a run that halted after the create call was accepted has its VM deleted by the
\* cleanup.
C3_ProvisionerAtomic ==
    Finished =>
        /\ Returned("StepVMCreate", "continue") =>
              /\ GetOk(state, "vm_id")
              /\ GetOk(state, "machine_id")
              /\ state["machine_id"] # 0
        /\ (Returned("StepVMCreate", "halt") /\ Has("CreateVM", "created")) =>
              Entries("DeleteVM") # {}

\* C4: a power-on action is issued only after the waiter continued and after every
\* disk created with media "import" had its last status read answer a status other
\* than importing.
C4_PowerOnAfterImports ==
    \A p \in Entries("PowerAction") :
        log[p].res \in {"poweron", "poweron_error"} =>
            /\ \E w \in 1..(p - 1) : log[w] = Ev("Return", "StepWaitForDiskImport", "continue")
            /\ \A c \in 1..(p - 1) :
                  (log[c].op = "CreateDisk" /\ log[c].res = "import") =>
                      \E q \in (c + 1)..(p - 1) :
                          /\ log[q].op = "GetDiskImportStatus"
                          /\ log[q].arg = log[c].arg
                          /\ log[q].res \notin {"importing", "Importing", "error"}

\* the VM of a build with two imported disks is powered on
C4_Witness ==
    /\ Has("PowerAction", "poweron")
    /\ Cardinality({c \in DOMAIN log : log[c].op = "CreateDisk" /\ log[c].res = "import"}) = 2

\* the network-config files that hold an IPv4 address in CIDR notation
StaticFiles(cfg) ==
    {n \in DOMAIN cfg.CloudInitFiles :
        /\ cfg.CloudInitFiles[n].Name = "network-config"
        /\ \E t \in DOMAIN cfg.CloudInitFiles[n].Contents :
              cfg.CloudInitFiles[n].Contents[t].kind = "cidr"}

\* the first such address of the first such file
StaticAddress(cfg) ==
    LET n == CHOOSE a \in StaticFiles(cfg) : \A b \in StaticFiles(cfg) : a <= b
        toks == cfg.CloudInitFiles[n].Contents
        t == CHOOSE a \in DOMAIN toks :
                 toks[a].kind = "cidr" /\ \A b \in 1..(a - 1) : toks[b].kind # "cidr"
    IN toks[t].addr

\* C5: with a static address in a network-config payload, the host the connect step
\* uses is that address and the guest agent is never queried, guest_agent set or not.
C5_StaticAddressWins ==
    StaticFiles(config) # {} =>
        /\ Entries("GetGuestAgentIPs") = {}
        /\ Entries("Host") = {}
        /\ \A n \in Entries("Connect") : log[n].arg = StaticAddress(config)
        /\ Returned("StepPowerOn", "continue") =>
              GetOk(state, "host") /\ state["host"] = StaticAddress(config)

\* a build with guest_agent enabled connects to the static address of its second
\* network-config file
C5_Witness ==
    /\ config.GuestAgent
    /\ StaticFiles(config) = {2}
    /\ Has("Connect", "connected")

\* C6: whenever the connect step asks for the host, a host is in the build state.
C6_HostPresentAtConnect ==
    pc = "StepConnect" => GetOk(state, "host")

\* the VM was seen running, no static address, guest_agent disabled
NoDiscoveryMethod ==
    /\ GetOk(state, "vm_powered_on")
    /\ StaticFiles(config) = {}
    /\ ~config.GuestAgent

\* C7: without a static address and without guest agent the power-on step halts with
\* the no-discovery-method error, stores no host, and no later step runs.
C7_NoDiscoveryMethodIsFatal ==
    NoDiscoveryMethod =>
        /\ Returned("StepPowerOn", "halt")
        /\ GetOk(state, "error") /\ state["error"] = "no_ip_discovery_method"
        /\ ~GetOk(state, "host")
        /\ ~Ran("StepConnect") /\ ~Ran("StepProvision") /\ ~Ran("StepShutdown")
        /\ Entries("Connect") = {} /\ Entries("Provision") = {}
        /\ Entries("StartCommand") = {}

C7_Witness ==
    /\ NoDiscoveryMethod
    /\ pc = "done"
    /\ result.kind = "error"

ShutdownPcs == {"StepShutdown", "shutdown_wait", "shutdown_drain"}

ShutdownReturns == {n \in DOMAIN log : log[n].op = "Return" /\ log[n].arg = "StepShutdown"}

Kills == {n \in Entries("PowerAction") : log[n].res \in {"kill", "kill_error"}}

\* C10: once StepShutdown returned, exactly one kill action was issued if the command
\* could not be started, exited non-zero or timed out, and none if it exited zero.
C10_ForcedShutdownKillsOnce ==
    ShutdownReturns # {} =>
        /\ (Has("StartCommand", "error") \/ Has("WaitCommand", "exit1")
              \/ Has("WaitCommand", "timeout")) =>
                 /\ Cardinality(Kills) = 1
                 /\ \A n \in Kills : log[n].arg = state["vm_id"]
        /\ Has("WaitCommand", "exit0") => Kills = {}

C10_Witness ==
    /\ pc = "done"
    /\ Has("WaitCommand", "timeout")
    /\ Has("PowerAction", "kill_error")

\* C11: once StepShutdown returned, every kill action it issued is followed by a
\* query of the running state of the VM.
C11_KillIsVerified ==
    ShutdownReturns # {} =>
        \A k \in Kills : \E q \in Entries("GetRunningState") : q > k

\* C12: a build whose StepShutdown ran holds no error, whatever the answers of the
\* command start, the command, the power-off call and the verification, and
\* Builder.Run does not return an error.
C12_ShutdownRecordsNoError ==
    Ran("StepShutdown") =>
        /\ ~GetOk(state, "error")
        /\ result.kind # "error"

\* the command could not be started and the power-off call failed as well
C12_Witness ==
    /\ pc = "done"
    /\ Has("StartCommand", "error")
    /\ Has("PowerAction", "kill_error")
    /\ result.kind = "artifact"

\* the queries of the running state issued after StepShutdown started
ShutdownQueries ==
    {n \in Entries("GetRunningState") :
        \E r \in 1..(n - 1) : log[r] = Ev("Run", "StepShutdown", "")}

\* C13: without a shutdown command StepShutdown leaves the build state and the VM
\* as they are, returns continue, and the build issues no remote command, no kill
\* action and no query of the running state for the shutdown.
C13_NoCommandSkipsShutdown ==
    /\ [][(pc = "StepShutdown" /\ config.ShutdownCommand = "") =>
             /\ state' = state
             /\ serverVM' = serverVM
             /\ log' \in {log, Append(log, Ev("Return", "StepShutdown", "continue"))}
             /\ pc' \in {pc, "cleanup"}]_vars
    /\ [](config.ShutdownCommand = "" =>
             /\ Entries("StartCommand") = {}
             /\ Entries("WaitCommand") = {}
             /\ Kills = {}
             /\ ShutdownQueries = {})

\* a build without shutdown command that went through StepShutdown
C13_Witness ==
    /\ config.ShutdownCommand = ""
    /\ Returned("StepShutdown", "continue")
    /\ pc = "done"

\* every step of the pipeline returned continue
AllStepsContinued == \A n \in DOMAIN Steps : Returned(Steps[n], "continue")

\* C14: Builder.Run returns an artifact exactly when every step ran and continued;
\* after a halt or a cancellation it returns an error.
C14_ArtifactOnlyOnCleanPath ==
    pc = "done" =>
        /\ result.kind = "artifact" => AllStepsContinued
        /\ ~AllStepsContinued => result.kind = "error"

\* C15: once an error is recorded it stays as it is, no step is started after it,
\* and it is the error Builder.Run returns.
C15_FirstErrorWins ==
    /\ [][GetOk(state, "error") =>
             /\ GetOk(state', "error")
             /\ state'["error"] = state["error"]
             /\ {n \in DOMAIN log' : log'[n].op = "Run"} = Entries("Run")]_vars
    /\ []((pc = "done" /\ GetOk(state, "error")) =>
             result = [kind |-> "error", err |-> state["error"]])

\* a NIC creation failed, the deletion of the VM failed too, and Builder.Run
\* returned the error of the NIC creation
C15_Witness ==
    /\ pc = "done"
    /\ Has("DeleteVM", "error")
    /\ result = [kind |-> "error", err |-> ResourceError("nic", NicNameOf(1))]

\* the positions of the pipeline inside a polling or waiting loop
WaitPcs == {"import_wait", "power_poll", "shutdown_wait", "shutdown_drain"}

\* C16: the step of a build that is cancelled inside a waiting loop halts the build
\* with an error at its next move.
C16_WaitsRespectCancellation ==
    [][(cancelled /\ pc \in WaitPcs) =>
          /\ pc' = "cleanup"
          /\ GetOk(state', "halted")
          /\ GetOk(state', "error")]_vars

\* C18: after StepVMCreate continued, the keys in import_disk_keys are the keys of
\* the disks with media "import", and of no other disk.
C18_ImportTrackerMatchesMedia ==
    Returned("StepVMCreate", "continue") =>
        /\ \A d \in DOMAIN Disks :
              (Disks[d].Media = "import") <=>
                  (\E n \in DOMAIN TrackedKeys : TrackedKeys[n] = DiskKeyOf(d))
        /\ \A n \in DOMAIN TrackedKeys :
              \E d \in DOMAIN Disks : TrackedKeys[n] = DiskKeyOf(d)

\* a VM with a plain disk and an import disk was created
C18_Witness ==
    /\ Returned("StepVMCreate", "continue")
    /\ Len(Disks) = 2
    /\ Disks[1].Media = "disk"
    /\ Disks[2].Media = "import"

\* the resize calls issued for a disk
ResizeCalls(key) == {n \in Entries("ResizeDisk") : log[n].arg = key}

\* C19: each tracked disk that was read gets one resize call, to the requested size,
\* when its size in GB differs from the requested size, and none when it matches; a
\* failed read or resize is the last thing the step does and halts the build with an
\* error; a step that continued has gone through every tracked disk.
C19_SizeReconciliation ==
    /\ \A n \in DOMAIN resizeLog :
          LET e == resizeLog[n] IN
          /\ e.key = TrackedKeys[n]
          /\ e.requested = TrackedConfigs[n].DiskSize
          /\ e.read = "ok" =>
                IF e.current \div GiB # e.requested
                   THEN /\ e.resize \in {"ok", "error"}
                        /\ e.target = e.requested * GiB
                        /\ Cardinality(ResizeCalls(e.key)) = 1
                   ELSE /\ e.resize = "none"
                        /\ ResizeCalls(e.key) = {}
          /\ (e.read = "error" \/ e.resize = "error") =>
                /\ n = Len(resizeLog)
                /\ Returned("StepWaitForDiskImport", "halt")
                /\ GetOk(state, "error")
                /\ ~Ran("StepPowerOn")
    /\ Returned("StepWaitForDiskImport", "continue") =>
          /\ Len(resizeLog) = Len(TrackedKeys)
          /\ \A n \in DOMAIN resizeLog : resizeLog[n].resize \in {"none", "ok"}

\* two disks were imported: the first one was resized, the second one matched
C19_Witness ==
    /\ Returned("StepWaitForDiskImport", "continue")
    /\ Len(resizeLog) = 2
    /\ resizeLog[1].resize = "ok"
    /\ resizeLog[2].resize = "none"

\* C20: a failed status read inside the import polling loop is not what ends the
\* step, and a failed create call ends StepVMCreate at once.
C20_PollErrorsAreRetried ==
    /\ \A n \in Entries("GetDiskImportStatus") :
          log[n].res = "error" =>
              ~(n < Len(log) /\ log[n + 1] = Ev("Return", "StepWaitForDiskImport", "halt"))
    /\ \A n \in DOMAIN log :
          (log[n].op \in {"CreateVM", "CreateDisk", "CreateNic"} /\ log[n].res = "error") =>
              log[n + 1] = Ev("Return", "StepVMCreate", "halt")

\* the disk and NIC create calls
CreateCalls == {n \in DOMAIN log : log[n].op \in {"CreateDisk", "CreateNic"}}

\* the number of calls of the operation of entry n up to entry n
Nth(n) == Cardinality({m \in 1..n : log[m].op = log[n].op})

\* C24: a failed disk or NIC create call is the last create call of the build, the
\* step returns halt right after it, the VM is flagged for rollback and the error
\* recorded names the kind and the name of the resource that failed.
C24_CreateFailureHaltsAtOnce ==
    \A f \in CreateFailures :
        /\ \A n \in CreateCalls : n <= f
        /\ log[f + 1] = Ev("Return", "StepVMCreate", "halt")
        /\ GetOk(state, "vm_creation_failed") /\ state["vm_creation_failed"]
        /\ GetOk(state, "error")
        /\ state["error"] = IF log[f].op = "CreateDisk"
                               THEN "disk " \o Disks[Nth(f)].Name
                               ELSE "nic " \o NicNameOf(Nth(f))

\* the creation of the second disk failed
C24_Witness ==
    /\ Finished
    /\ GetOk(state, "error")
    /\ state["error"] = "disk data"
    /\ result.kind = "error"

C26_DeleteOnlyOnRollback ==
    /\ \A n \in Entries("DeleteVM") :
          /\ pc \in {"cleanup", "finish", "done"}
          /\ n = Len(log)
          /\ GetOk(state, "vm_id") /\ log[n].arg = state["vm_id"]
          /\ GetOk(state, "vm_creation_failed") /\ state["vm_creation_failed"]
    /\ (~Has("CreateVM", "created") \/ AllStepsContinued) => Entries("DeleteVM") = {}

\* the VM of a build that failed on its NIC was deleted
C26_Witness ==
    /\ pc = "done"
    /\ Has("CreateNic", "error")
    /\ Has("DeleteVM", "deleted")

\* C27: machine_id and vm_id, once in the build state, stay there with their values,
\* which are the ones the creation resolved.
C27_MachineIdStable ==
    /\ [][GetOk(state, "vm_id") =>
             /\ GetOk(state', "vm_id") /\ state'["vm_id"] = state["vm_id"]
             /\ GetOk(state', "machine_id") /\ GetOk(state, "machine_id")
             /\ state'["machine_id"] = state["machine_id"]]_vars
    /\ [](GetOk(state, "machine_id") =>
             /\ GetOk(state, "vm_id")
             /\ \E r \in Entries("ReadVM") :
                   /\ log[r].machine = state["machine_id"]
                   /\ log[r].arg = state["vm_id"])

\* a build that went through all its steps returned its artifact
C27_Witness ==
    /\ pc = "done"
    /\ AllStepsContinued
    /\ result.kind = "artifact"
    /\ state["machine_id"] = 7
    /\ state["vm_id"] = VmKey

Importing(status) == status \in {"importing", "Importing"}

ImportHalt == Ev("Return", "StepWaitForDiskImport", "halt")

\* C28: a disk is read at most maxRetries times; after a status of importing, in
\* either spelling, the waiter polls the same disk again or, at the last read
\* allowed, halts with the timeout error that carries the key and the status; any
\* other status ends the polling of the disk.
C28_ImportPollingBounded ==
    /\ retries < maxRetries
    /\ \A n \in Entries("GetDiskImportStatus") :
          IF Importing(log[n].res)
             THEN IF n = Len(log)
                     THEN /\ pc = "import_wait"
                          /\ log[n].arg = TrackedKeys[i]
                          /\ retries \in 1..(maxRetries - 1)
                     ELSE /\ log[n + 1] = ImportHalt
                          /\ retries = maxRetries - 1
                          /\ state["error"] =
                                "import_timeout " \o log[n].arg \o " " \o log[n].res
             ELSE log[n].res # "error" =>
                     /\ n < Len(log) => log[n + 1] # ImportHalt
                     /\ ~(pc = "import_wait" /\ TrackedKeys[i] = log[n].arg)
                     /\ \A m \in Entries("GetDiskImportStatus") :
                           m > n => log[m].arg # log[n].arg

\* the second disk was still importing at its last read
C28_Witness ==
    /\ Finished
    /\ GetOk(state, "error")
    /\ state["error"] = "import_timeout disk2 Importing"

\* the position of a key in the import tracker
TrackedIndex(key) == CHOOSE n \in DOMAIN TrackedKeys : TrackedKeys[n] = key

\* C29: the status reads go through the tracked disks in their order, a disk being
\* read only after the one before it answered a status other than importing, and
\* every size read and resize call comes after all tracked disks did so.
C29_DisksWaitedInOrder ==
    /\ \A a \in Entries("GetDiskImportStatus") :
          /\ \E n \in DOMAIN TrackedKeys : TrackedKeys[n] = log[a].arg
          /\ \A b \in Entries("GetDiskImportStatus") :
                a < b => /\ TrackedIndex(log[a].arg) < TrackedIndex(log[b].arg)
                         /\ ~Importing(log[a].res) /\ log[a].res # "error"
          /\ \A n \in 1..(TrackedIndex(log[a].arg) - 1) :
                \E b \in Entries("GetDiskImportStatus") :
                    b < a /\ log[b].arg = TrackedKeys[n]
    /\ \A r \in Entries("ReadDisk") \cup Entries("ResizeDisk") :
          \A n \in DOMAIN TrackedKeys :
              \E a \in Entries("GetDiskImportStatus") :
                  /\ a < r
                  /\ log[a].arg = TrackedKeys[n]
                  /\ ~Importing(log[a].res) /\ log[a].res # "error"

\* two disks were imported, one after the other, and the second one was resized
C29_Witness ==
    /\ Returned("StepWaitForDiskImport", "continue")
    /\ Len(TrackedKeys) = 2
    /\ Len(resizeLog) = 2
    /\ resizeLog[2].resize = "ok"

\* the calls and the delay of the import waiter
ImportWaitEntries ==
    {n \in DOMAIN log :
        \/ log[n].op \in {"GetDiskImportStatus", "ReadDisk", "ResizeDisk"}
        \/ log[n] = Ev("Sleep", "", "import_settle")}

\* C30: with an empty or absent import tracker StepWaitForDiskImport changes nothing
\* in the build state, returns continue, and no status read, size read, resize call
\* or settle delay is ever issued.
C30_EmptyTrackerIsNoOp ==
    /\ [][(pc = "StepWaitForDiskImport" /\ Len(TrackedKeys) = 0) =>
             /\ state' = state
             /\ serverVM' = serverVM
             /\ log' \in {log, Append(log, Ev("Return", "StepWaitForDiskImport", "continue"))}
             /\ pc' \in {pc, "dispatch"}]_vars
    /\ [](Len(TrackedKeys) = 0 => ImportWaitEntries = {})

\* a VM with two plain disks went through the waiter
C30_Witness ==
    /\ Returned("StepWaitForDiskImport", "continue")
    /\ Len(Disks) = 2
    /\ ~GetOk(state, "import_disk_keys")

\* the step that issued entry n of the history
StepAt(n) ==
    LET runs == {m \in Entries("Run") : m < n} IN
    IF runs = {} THEN "" ELSE log[CHOOSE m \in runs : \A k \in runs : k <= m].arg

\* the reads of the running state by StepPowerOn (consecutive reads are one
\* entry, holding the answer of the last of them)
PowerOnReads == {n \in Entries("GetRunningState") : StepAt(n) = "StepPowerOn"}

ReadRunning == \E n \in PowerOnReads : log[n].res = "true"

\* C31: StepPowerOn marks vm_powered_on and goes on to the address resolution only
\* after a read of the running state answered true; a read that failed or answered
\* not running leaves the step polling, and the only halt that follows it is the
\* timeout, with the timeout error and vm_power_on_failed; a step that was sent
\* the power-on and halts without a true read halts with the timeout error;
\* vm_powered_on and vm_power_on_failed are never both set.
C31_PowerOnPolling ==
    /\ GetOk(state, "vm_powered_on") => ReadRunning
    /\ Returned("StepPowerOn", "continue") =>
          GetOk(state, "vm_powered_on") /\ ReadRunning
    /\ \A n \in PowerOnReads :
          log[n].res # "true" =>
             IF n = Len(log)
                THEN pc = "power_poll" /\ ~GetOk(state, "error")
                ELSE /\ log[n + 1] = Ev("Return", "StepPowerOn", "halt")
                     /\ state["error"] = "power_on_timeout"
    /\ (/\ Has("PowerAction", "poweron")
        /\ Returned("StepPowerOn", "halt")
        /\ ~ReadRunning) =>
          /\ state["error"] = "power_on_timeout"
          /\ GetOk(state, "vm_power_on_failed")
          /\ pc = "done" => result.err = "power_on_timeout"
    /\ ~(GetOk(state, "vm_powered_on") /\ GetOk(state, "vm_power_on_failed"))

\* a build that was never cancelled ran out of the power-on timeout after a read
\* that answered not running
C31_Witness ==
    /\ pc = "done"
    /\ ~cancelled
    /\ \E n \in PowerOnReads : log[n].res = "false"
    /\ result.err = "power_on_timeout"


\* the reads of the running state by StepShutdown
VerifyReads == {n \in Entries("GetRunningState") : StepAt(n) = "StepShutdown"}

\* the shutdown command exited with status zero
CommandExits == {n \in DOMAIN log : log[n] = Ev("WaitCommand", "", "exit0")}

\* C35: after the shutdown command exited with status zero, the next thing the
\* step does is the drain; the power state is read only right after a completed
\* drain that follows such an exit; whatever the read answers, the step then
\* returns continue with vm_shutdown_completed set.  A drain that is cut short by
\* the cancellation ends the step without any read.
C35_DrainBeforeVerify ==
    /\ \A n \in CommandExits :
          IF n = Len(log)
             THEN pc = "shutdown_drain"
             ELSE \/ log[n + 1] = Ev("Sleep", "", "drain")
                  \/ log[n + 1] = Ev("Return", "StepShutdown", "halt") /\ cancelled
    /\ \A n \in VerifyReads :
          /\ n > 2
          /\ log[n - 1] = Ev("Sleep", "", "drain")
          /\ n - 2 \in CommandExits
          /\ n < Len(log)
          /\ log[n + 1] = Ev("Return", "StepShutdown", "continue")
          /\ GetOk(state, "vm_shutdown_completed")
    /\ \A n \in DOMAIN log :
          log[n] = Ev("Sleep", "", "drain") => n - 1 \in CommandExits

\* the command exited with zero, the drain passed, the VM was read still running,
\* and the step completed
C35_Witness ==
    /\ Returned("StepShutdown", "continue")
    /\ \E n \in VerifyReads : log[n].res = "true"
    /\ GetOk(state, "vm_shutdown_completed")
    /\ ~GetOk(state, "error")


\* the errors of the steps that run after the creation: a status read that failed,
\* an import that did not complete, a size read or a resize that failed, the
\* power-on call that failed, no way to find an address
LaterFailures ==
    {"import_status", "resize", "power_on_call", "no_ip_discovery_method"}
        \cup {ImportTimeoutError(DiskKeyOf(n), s) : n \in 1..MaxDisks, s \in ImportStatuses}

DiskOfKey(key) == CHOOSE d \in 1..4 : DiskKeyOf(d) = key

\* keys and configs go together: same length, and the n-th config is the
\* configuration of the disk whose creation answered the n-th key
Aligned(keys, configs) ==
    /\ Len(keys) = Len(configs)
    /\ \A n \in DOMAIN keys :
          /\ \E m \in Entries("CreateDisk") : log[m].arg = keys[n] /\ log[m].res = "import"
          /\ DiskOfKey(keys[n]) \in DOMAIN Disks
          /\ configs[n] = Disks[DiskOfKey(keys[n])]

\* C39: the two lists of the import tracker, as locals of StepVMCreate and as
\* import_disk_keys and import_disk_configs of the build state, have the same
\* length, and the n-th config is the configuration of the disk whose creation
\* answered the n-th key; the size check reads key n against the requested size of
\* that disk; the two keys are in the state together, and only when every disk of
\* the configuration was created.
C39_TrackerListsAligned ==
    /\ Aligned(importDiskKeys, importDiskConfigs)
    /\ GetOk(state, "import_disk_keys") <=> GetOk(state, "import_disk_configs")
    /\ Aligned(TrackedKeys, TrackedConfigs)
    /\ GetOk(state, "import_disk_keys") =>
          /\ TrackedKeys # <<>>
          /\ ~Has("CreateDisk", "error")
          /\ Cardinality(Entries("CreateDisk")) = Len(Disks)
    /\ \A n \in DOMAIN resizeLog :
          /\ resizeLog[n].key = TrackedKeys[n]
          /\ resizeLog[n].requested = Disks[DiskOfKey(resizeLog[n].key)].DiskSize

\* two import disks: both were tracked and checked for their size
C39_Witness ==
    /\ Len(Disks) = 2
    /\ Len(TrackedKeys) = 2
    /\ TrackedConfigs[2].Name = DiskNameOf(2)
    /\ Len(resizeLog) = 2


\* the whole GiB in a number of bytes below 2 GiB
WholeGiB(bytes) == CHOOSE q \in 0..1 : q * GiB <= bytes /\ bytes - q * GiB < GiB

\* C40: a disk whose size was read is resized exactly when the whole GiB of its
\* size in bytes differ from the requested size in GB: a disk larger than the
\* requested size by less than one GiB is left as it is, a disk one byte short of
\* the requested size is resized; the size sent is the requested GB times 2^30.
C40_SizeComparedInWholeGiB ==
    \A n \in DOMAIN resizeLog :
        LET e == resizeLog[n] IN
        e.read = "ok" =>
            /\ (e.resize # "none") <=> (WholeGiB(e.current) # e.requested)
            /\ (e.current >= e.requested * GiB /\ e.current - e.requested * GiB < GiB) =>
                  e.resize = "none" /\ ResizeCalls(e.key) = {}
            /\ e.current < e.requested * GiB => e.resize # "none"
            /\ e.resize # "none" =>
                  /\ e.target = e.requested * 1073741824
                  /\ ResizeCalls(e.key) # {}

\* a disk one byte larger than 1 GiB was left alone, a disk one byte short of
\* 1 GiB was resized to 2^30 bytes
C40_Witness ==
    /\ Len(resizeLog) = 2
    /\ resizeLog[1].current = GiB + 1
    /\ resizeLog[1].requested = 1
    /\ resizeLog[1].resize = "none"
    /\ resizeLog[2].current = GiB - 1
    /\ resizeLog[2].resize = "ok"
    /\ resizeLog[2].target = GiB


-----------------------------------------------------------------------------
(* StepWaitForIP.Run, the guest-agent address resolver, run on its own on   *)
(* a VM that is powered on.  config.Polls are the answers of                *)
(* VMApi.GetGuestAgentIPs in the order of the queries (the last answer is   *)
(* repeated, or all of them when config.Cycle is set),                      *)
(* config.WaitTicks is WaitTimeout in ticks of the discovery                *)
(* ticker, config.SettleTicks is SettleTimeout in ticks of the settle       *)
(* ticker (0: shorter than one tick).                                       *)

Answer(err, ips) == [err |-> err, ips |-> ips]

\* the next answer of the guest agent, and the answers left after it
NextAnswer == Head(polls)

\* the last answer is repeated, or with config.Cycle the answers start over
Consumed ==
    IF Len(polls) > 1
       THEN IF config.Cycle THEN Append(Tail(polls), Head(polls)) ELSE Tail(polls)
       ELSE polls

\* the history counts the restarts up to MaxRestarts
CountRestart(n) == IF n < MaxRestarts THEN n + 1 ELSE n

Elems(q) == {q[n] : n \in DOMAIN q}

\* a comparison position by position
ipSlicesIdentical(a, b) == a = b

\* a comparison that takes an empty answer for no change
ipSlicesEqualOrEmpty(a, b) == Len(a) = 0 \/ (Len(a) = Len(b) /\ Elems(a) = Elems(b))

\* equal lengths, and every address of either list is in the other
ipSlicesEqual(a, b) == Len(a) = Len(b) /\ Elems(a) = Elems(b)

IpReturn(st, action) ==
    /\ state' = st
    /\ pc' = IF action = "continue" THEN "ip_continue" ELSE "ip_halt"

\* a selection of the last address of the list
SelectLastIP(ips) ==
    IF Len(ips) = 0
       THEN IpReturn(Put(state, "error", "no_ip_discovered"), "halt")
       ELSE IpReturn(Put(Put(state, "host", ips[Len(ips)]), "discovered_ips", ips), "continue")

\* Phase 3: select the address
SelectIP(ips) ==
    IF Len(ips) = 0
       THEN IpReturn(Put(state, "error", "no_ip_discovered"), "halt")
       ELSE IpReturn(Put(Put(state, "host", ips[1]), "discovered_ips", ips), "continue")

\* a discovery that ends on any answer without error, empty or not
FoundAnyAnswer(answer) == ~answer.err

\* err == nil && len(currentIPs) > 0
Found(answer) == ~answer.err /\ Len(answer.ips) > 0

\* the vm_id check and the initial guest agent check
WaitForIPStart ==
    /\ pc = "StepWaitForIP"
    /\ IF ~GetOk(state, "vm_id")
          THEN /\ IpReturn(Put(state, "error", "no_vm_id"), "halt")
               /\ UNCHANGED <<polls, discoveredIPs, lastDiscoveredIPs, log>>
          ELSE /\ polls' = Consumed
               /\ log' = LogPoll(log, "GetGuestAgentIPs", state["vm_id"], "")
               /\ IF Found(NextAnswer)
                     THEN /\ discoveredIPs' = NextAnswer.ips
                          /\ lastDiscoveredIPs' = NextAnswer.ips
                          /\ pc' = "ip_settle"
                     ELSE /\ pc' = "ip_discover"
                          /\ UNCHANGED <<discoveredIPs, lastDiscoveredIPs>>
               /\ state' = state
    /\ ticks' = 0
    /\ UNCHANGED <<config, step, deferred, cancelled, i, retries, importDiskKeys,
                   importDiskConfigs, serverVM, resizeLog, result, settleRestarts>>

\* Phase 1, case <-timeoutCtx.Done()
DiscoverTimeout ==
    /\ pc = "ip_discover"
    /\ cancelled \/ ticks + 1 >= config.WaitTicks
    /\ IpReturn(Put(state, "error", "guest_agent_timeout"), "halt")
    /\ UNCHANGED <<config, step, deferred, cancelled, i, retries, ticks, importDiskKeys,
                   importDiskConfigs, serverVM, resizeLog, log, result, ipVars>>

\* Phase 1, case <-ticker.C
DiscoverTick ==
    /\ pc = "ip_discover"
    /\ ticks < config.WaitTicks
    /\ polls' = Consumed
    /\ log' = LogPoll(log, "GetGuestAgentIPs", state["vm_id"], "")
    /\ IF ~Found(NextAnswer)
          THEN /\ ticks' = ticks + 1
               /\ UNCHANGED <<pc, discoveredIPs, lastDiscoveredIPs>>
          ELSE /\ discoveredIPs' = NextAnswer.ips
               /\ lastDiscoveredIPs' = NextAnswer.ips
               /\ pc' = "ip_settle"
               /\ ticks' = 0
    /\ UNCHANGED <<config, state, step, deferred, cancelled, i, retries, importDiskKeys,
                   importDiskConfigs, serverVM, resizeLog, result, settleRestarts>>

\* Phase 2, case <-settleCtx.Done(): the settle timeout passed before the next tick,
\* or the build is cancelled
SettleTimeout ==
    /\ pc = "ip_settle"
    /\ cancelled \/ config.SettleTicks <= ticks + 1
    /\ SelectIP(discoveredIPs)
    /\ UNCHANGED <<config, step, deferred, cancelled, i, retries, ticks, importDiskKeys,
                   importDiskConfigs, serverVM, resizeLog, log, result, ipVars>>

\* Phase 2, case <-settleTicker.C: an answer that differs restarts the settle
\* timeout; after an answer that does not differ the loop is left (the break that
\* follows the select)
SettleTick ==
    /\ pc = "ip_settle"
    /\ config.SettleTicks >= ticks + 1
    /\ polls' = Consumed
    /\ log' = LogPoll(log, "GetGuestAgentIPs", state["vm_id"], "")
    /\ IF NextAnswer.err
          THEN /\ IpReturn(Put(state, "error", "guest_agent_lost"), "halt")
               /\ UNCHANGED <<ticks, discoveredIPs, lastDiscoveredIPs, settleRestarts>>
          ELSE IF ~ipSlicesEqual(NextAnswer.ips, lastDiscoveredIPs)
                  THEN /\ discoveredIPs' = NextAnswer.ips
                       /\ lastDiscoveredIPs' = NextAnswer.ips
                       /\ settleRestarts' = CountRestart(settleRestarts)
                       /\ ticks' = 0
                       /\ UNCHANGED <<state, pc>>
                  ELSE /\ SelectIP(discoveredIPs)
                       /\ UNCHANGED <<ticks, discoveredIPs, lastDiscoveredIPs, settleRestarts>>
    /\ UNCHANGED <<config, step, deferred, cancelled, i, retries, importDiskKeys,
                   importDiskConfigs, serverVM, resizeLog, result>>

\* the caller cancels the build while the resolver runs
CancelIP ==
    /\ pc \in {"StepWaitForIP", "ip_discover", "ip_settle"}
    /\ ~cancelled
    /\ cancelled' = TRUE
    /\ UNCHANGED <<config, state, pc, step, deferred, i, retries, ticks,
                   importDiskKeys, importDiskConfigs, serverVM, resizeLog, log, result, ipVars>>

IpLists == { <<>>, <<"10.0.0.5">>, <<"10.0.0.6", "10.0.0.5">>, <<"10.0.0.5", "10.0.0.6">> }

Answers == {Answer(TRUE, <<>>)} \cup {Answer(FALSE, ips) : ips \in IpLists}

PollLists == UNION {[1..n -> Answers] : n \in 1..MaxPolls}

InitIP ==
    /\ config \in [Polls : PollLists,
                   WaitTicks : {MaxWaitTicks},
                   SettleTicks : 0..MaxSettleTicks,
                   Cycle : BOOLEAN]
    /\ polls = config.Polls
    /\ state = [k \in {"cluster_config", "config", "vm_id", "vm_powered_on"} |->
                   IF k = "vm_id" THEN VmKey ELSE IF k = "vm_powered_on" THEN TRUE ELSE "set"]
    /\ pc = "StepWaitForIP"
    /\ step = 1
    /\ deferred = 0
    /\ cancelled = FALSE
    /\ i = 1
    /\ retries = 0
    /\ ticks = 0
    /\ importDiskKeys = <<>>
    /\ importDiskConfigs = <<>>
    /\ serverVM = "present"
    /\ resizeLog = <<>>
    /\ log = <<>>
    /\ result = [kind |-> "none", err |-> ""]
    /\ discoveredIPs = <<>>
    /\ lastDiscoveredIPs = <<>>
    /\ settleRestarts = 0
    /\ NoQuery

NextIP ==
    \/ /\ \/ WaitForIPStart
          \/ DiscoverTimeout
          \/ DiscoverTick
          \/ SettleTimeout
          \/ SettleTick
          \/ CancelIP
       /\ UNCHANGED dsVars
       /\ UNCHANGED ciVars

SpecWaitForIP == InitIP /\ [][NextIP]_vars

\* the tickers and the timeouts of the resolver fire: a resolver that can move,
\* moves, and a select whose Done case stays ready takes it in the end
SpecWaitForIPFair ==
    /\ SpecWaitForIP
    /\ WF_vars(NextIP)
    /\ WF_vars(DiscoverTimeout /\ UNCHANGED <<dsVars, ciVars>>)
    /\ WF_vars(SettleTimeout /\ UNCHANGED <<dsVars, ciVars>>)

-----------------------------------------------------------------------------
(* Properties of the address resolver *)

SetA == <<"10.0.0.5">>

SetB == <<"10.0.0.6", "10.0.0.5">>

\* C8: for the answers [A, A, B, B, B] and a settle window of 2 ticks the resolver
\* restarts the settle clock exactly once and concludes on B, never on A.
C8_SettleRestartLaw ==
    (/\ config.Polls = <<Answer(FALSE, SetA), Answer(FALSE, SetA), Answer(FALSE, SetB),
                         Answer(FALSE, SetB), Answer(FALSE, SetB)>>
     /\ config.SettleTicks = 2
     /\ ~cancelled
     /\ pc = "ip_continue") =>
        /\ settleRestarts = 1
        /\ state["discovered_ips"] = SetB
        /\ state["host"] = SetB[1]

\* C17: the resolver ends, whatever the guest agent answers.
C17_ResolverTerminates == <>(pc \in {"ip_continue", "ip_halt"})

\* the resolver is in its discovery phase: the initial check or the polling loop
Discovering == (pc = "StepWaitForIP" /\ GetOk(state, "vm_id")) \/ pc = "ip_discover"

\* a step of the resolver that asked the guest agent while discovering
DiscoveryQuery == Discovering /\ cancelled' = cancelled /\ pc' # "ip_halt"

\* C32: while discovering, an answer that is an error or an empty list leaves the
\* resolver discovering, with nothing stored; the first answer that holds an
\* address ends the discovery with exactly that list; the discovery phase halts
\* only on the wait timeout (or the cancellation), with the guest-agent timeout
\* error, no address discovered, and neither host nor discovered_ips stored.
C32_DiscoveryPhase ==
    /\ [][DiscoveryQuery =>
             IF ~NextAnswer.err /\ Len(NextAnswer.ips) > 0
                THEN /\ pc' = "ip_settle"
                     /\ discoveredIPs' = NextAnswer.ips
                     /\ state' = state
                ELSE /\ pc' = "ip_discover"
                     /\ discoveredIPs' = <<>>
                     /\ state' = state]_vars
    /\ [][(pc = "ip_discover" /\ pc' = "ip_halt") =>
             /\ cancelled \/ ticks + 1 >= config.WaitTicks
             /\ state' = Put(state, "error", "guest_agent_timeout")]_vars
    /\ []((pc = "ip_halt" /\ state["error"] = "guest_agent_timeout") =>
             /\ discoveredIPs = <<>>
             /\ ~GetOk(state, "host")
             /\ ~GetOk(state, "discovered_ips"))

\* a resolver that was never cancelled got an error, then an empty list, and ran
\* out of the wait timeout
C32_Witness ==
    /\ pc = "ip_halt"
    /\ ~cancelled
    /\ config.Polls = <<Answer(TRUE, <<>>), Answer(FALSE, <<>>)>>
    /\ state["error"] = "guest_agent_timeout"


\* C33: a settle poll that the guest agent answers with an error halts the resolver
\* with the connection-lost error and no host; a settle poll answered without
\* error never gives that error, and an empty answer after a non-empty one only
\* restarts the settle window: the resolver keeps polling and stores nothing.
C33_SettleErrorIsFatalEmptyIsNot ==
    /\ [][SettleTick =>
             IF NextAnswer.err
                THEN /\ pc' = "ip_halt"
                     /\ state' = Put(state, "error", "guest_agent_lost")
                ELSE /\ ~(GetOk(state', "error") /\ state'["error"] = "guest_agent_lost")
                     /\ (NextAnswer.ips = <<>> /\ lastDiscoveredIPs # <<>>) =>
                           /\ pc' = "ip_settle"
                           /\ state' = state
                           /\ discoveredIPs' = <<>>]_vars
    /\ []((GetOk(state, "error") /\ state["error"] = "guest_agent_lost") =>
             /\ pc = "ip_halt"
             /\ ~GetOk(state, "host")
             /\ ~GetOk(state, "discovered_ips"))

\* the guest agent answered an address, then an empty list, then an error
C33_Witness ==
    /\ pc = "ip_halt"
    /\ ~cancelled
    /\ config.Polls = <<Answer(FALSE, SetA), Answer(FALSE, <<>>), Answer(TRUE, <<>>)>>
    /\ settleRestarts = 1
    /\ state["error"] = "guest_agent_lost"


\* the resolver returned multistep.ActionContinue
Resolved == pc = "ip_continue"

\* C34 as stated: the host stored by a resolver that succeeds is the first address
\* of the last list the guest agent returned, and discovered_ips is that list.
C34_HostIsFirstOfLastAnswer ==
    /\ [][(SettleTick /\ pc' = "ip_continue") =>
             /\ state'["host"] = NextAnswer.ips[1]
             /\ state'["discovered_ips"] = NextAnswer.ips]_vars
    /\ [](Resolved => GetOk(state, "host") /\ state["discovered_ips"] # <<>>)

\* C34, amended: the host stored by a resolver that succeeds is the first address
\* of discoveredIPs, the last list of the guest agent that differed as a set from
\* the list before it, in the order of that answer; discovered_ips is that whole
\* non-empty list; the last list the guest agent returned holds the same addresses,
\* possibly in another order; the state holds one host, never rewritten.
C34_HostIsFirstOfStableList ==
    /\ [](Resolved =>
             /\ discoveredIPs # <<>>
             /\ state["host"] = discoveredIPs[1]
             /\ state["discovered_ips"] = discoveredIPs)
    /\ [][discoveredIPs' # discoveredIPs =>
             /\ ~NextAnswer.err
             /\ discoveredIPs' = NextAnswer.ips
             /\ Elems(NextAnswer.ips) # Elems(discoveredIPs) \/ Len(NextAnswer.ips) # Len(discoveredIPs)]_vars
    /\ [][(SettleTick /\ pc' = "ip_continue") =>
             /\ Elems(NextAnswer.ips) = Elems(state'["discovered_ips"])
             /\ state'["host"] \in Elems(NextAnswer.ips)]_vars
    /\ [][GetOk(state, "host") => state'["host"] = state["host"]]_vars

\* the guest agent answered two addresses and then the same two in the other
\* order: the resolver succeeded with the first address of the earlier answer
C34_Witness ==
    /\ Resolved
    /\ ~cancelled
    /\ config.Polls = <<Answer(FALSE, <<"10.0.0.6", "10.0.0.5">>),
                        Answer(FALSE, <<"10.0.0.5", "10.0.0.6">>)>>
    /\ config.SettleTicks = 2
    /\ state["host"] = "10.0.0.6"


\* the answer at hand holds the addresses of the last list in another order
Reordered ==
    /\ ~NextAnswer.err
    /\ NextAnswer.ips # lastDiscoveredIPs
    /\ Len(NextAnswer.ips) = Len(lastDiscoveredIPs)
    /\ Elems(NextAnswer.ips) = Elems(lastDiscoveredIPs)

\* C38: a settle poll that reports the addresses of the poll before in another
\* order does not restart the settle window and does not replace the list; the
\* host then selected is the first address of the earlier ordering.
C38_ComparisonIgnoresOrder ==
    [][(SettleTick /\ Reordered) =>
          /\ settleRestarts' = settleRestarts
          /\ ticks' = ticks
          /\ discoveredIPs' = discoveredIPs
          /\ lastDiscoveredIPs' = lastDiscoveredIPs
          /\ pc' = "ip_continue"
          /\ state'["host"] = lastDiscoveredIPs[1]
          /\ state'["discovered_ips"] = lastDiscoveredIPs]_vars

\* the second poll reported the two addresses of the first in the other order, and
\* the host is the first address of the first poll, which the second poll lists last
C38_Witness ==
    /\ Resolved
    /\ ~cancelled
    /\ config.Polls = <<Answer(FALSE, <<"10.0.0.5", "10.0.0.6">>),
                        Answer(FALSE, <<"10.0.0.6", "10.0.0.5">>)>>
    /\ config.SettleTicks = 2
    /\ settleRestarts = 0
    /\ state["host"] = "10.0.0.5"


-----------------------------------------------------------------------------
(* The VM data source: VMDataSource.Execute with VMApi.GetVMs.  config is   *)
(* the configuration of the data source (FilterName, FilterId, IsSnapshot;  *)
(* an is_snapshot that is not given decodes to false) and config.ServerVMs  *)
(* are the VMs of the cluster.                                              *)

VM(id, name, isSnapshot) == [Id |-> id, Name |-> name, IsSnapshot |-> isSnapshot]

\* opts.Filter as the API applies it: "name eq '...'" and "id eq ..."
ApiFilter(vm) ==
    /\ config.FilterName # "" => vm.Name = config.FilterName
    /\ config.FilterId > 0 => vm.Id = config.FilterId

RECURSIVE Select(_, _)
Select(q, n) ==
    IF n > Len(q) THEN <<>>
    ELSE IF ApiFilter(q[n]) THEN <<q[n]>> \o Select(q, n + 1)
    ELSE Select(q, n + 1)

\* the item is skipped: no name or id filter, and isSnapshot != item.IsSnapshot
SkipItem(filterName, filterId, isSnapshot, item) ==
    IF filterName # "" \/ filterId > 0
       THEN FALSE
       ELSE isSnapshot # item.IsSnapshot

\* the query of the API and the decoding of its answer
GetVMsQuery ==
    /\ pc = "GetVMs"
    /\ \E ok \in BOOLEAN :
         IF ok
            THEN /\ vmAPIResp' = Select(config.ServerVMs, 1)
                 /\ pc' = "vms_loop"
                 /\ UNCHANGED result
            ELSE /\ result' = [kind |-> "error", err |-> "get_vms"]
                 /\ pc' = "ds_done"
                 /\ UNCHANGED vmAPIResp
    /\ i' = 1
    /\ vms' = <<>>
    /\ UNCHANGED <<config, idleVars, ipVars, ciVars>>

\* one iteration of the loop over the answer
GetVMsItem ==
    /\ pc = "vms_loop"
    /\ i <= Len(vmAPIResp)
    /\ vms' = IF SkipItem(config.FilterName, config.FilterId, config.IsSnapshot, vmAPIResp[i])
                  THEN vms
                  ELSE Append(vms, vmAPIResp[i])
    /\ i' = i + 1
    /\ UNCHANGED <<config, pc, result, vmAPIResp, idleVars, ipVars, ciVars>>

\* GetVMs returns vms, and Execute copies them to its output
ExecuteOutput ==
    /\ pc = "vms_loop"
    /\ i > Len(vmAPIResp)
    /\ result' = [kind |-> "output", err |-> ""]
    /\ pc' = "ds_done"
    /\ UNCHANGED <<config, i, vmAPIResp, vms, idleVars, ipVars, ciVars>>

VMNames == {"web", "db"}

ServerLists ==
    UNION {{[n \in 1..k |-> VM(n, f[n].Name, f[n].IsSnapshot)] :
               f \in [1..k -> [Name : VMNames, IsSnapshot : BOOLEAN]]} : k \in 0..MaxVMs}

InitGetVMs ==
    /\ config \in [FilterName : {"", "web"},
                   FilterId : {0, 1},
                   IsSnapshot : BOOLEAN,
                   ServerVMs : ServerLists]
    /\ pc = "GetVMs"
    /\ state = <<>>
    /\ step = 1
    /\ deferred = 0
    /\ cancelled = FALSE
    /\ i = 1
    /\ retries = 0
    /\ ticks = 0
    /\ importDiskKeys = <<>>
    /\ importDiskConfigs = <<>>
    /\ serverVM = "none"
    /\ resizeLog = <<>>
    /\ log = <<>>
    /\ result = [kind |-> "none", err |-> ""]
    /\ polls = <<>>
    /\ discoveredIPs = <<>>
    /\ lastDiscoveredIPs = <<>>
    /\ settleRestarts = 0
    /\ NoQuery

NextGetVMs ==
    \/ GetVMsQuery
    \/ GetVMsItem
    \/ ExecuteOutput

SpecGetVMs == InitGetVMs /\ [][NextGetVMs]_vars

-----------------------------------------------------------------------------
(* Properties of the VM data source *)

Returned_vms == pc = "ds_done" /\ result.kind = "output"

\* C21: a query without filter_name, without filter_id and without is_snapshot
\* returns every VM of the cluster, in the order of the API, snapshots included.
C21_NoFilterReturnsAll ==
    (/\ Returned_vms
     /\ config.FilterName = ""
     /\ config.FilterId = 0
     /\ ~config.IsSnapshot) =>
        vms = config.ServerVMs

\* C22: every VM returned is a snapshot exactly when is_snapshot is set, whatever
\* filter_name and filter_id are.
C22_SnapshotFilterAlwaysApplies ==
    Returned_vms => \A n \in DOMAIN vms : vms[n].IsSnapshot = config.IsSnapshot

-----------------------------------------------------------------------------
(* Builder.processCloudInitFiles, run by Builder.Prepare on                 *)
(* config.CloudInitFiles.  A string is the sequence of its characters, ""   *)
(* is <<>>.  fileSystem gives for each path its status, "missing" (os.Stat  *)
(* answers not-exist), "unreadable" (os.ReadFile fails) or "ok", and the    *)
(* contents of the file.                                                    *)

Entry(name, contents, files) == [Name |-> name, Contents |-> contents, Files |-> files]

\* the contents put one after the other, without separator
RECURSIVE ConcatenateGlued(_, _)
ConcatenateGlued(contents, k) ==
    IF k > Len(contents) THEN <<>>
    ELSE contents[k] \o ConcatenateGlued(contents, k + 1)

\* the loop over allContents: "\n" before every content but the first
RECURSIVE Concatenate(_, _)
Concatenate(contents, k) ==
    IF k > Len(contents) THEN <<>>
    ELSE (IF k > 1 THEN <<"\n">> ELSE <<>>) \o contents[k] \o Concatenate(contents, k + 1)

\* the entry the loop is at
cloudInitFile == config.CloudInitFiles[i]

CloudInitError(err) ==
    /\ result' = [kind |-> "error", err |-> err]
    /\ pc' = "ci_done"

\* one iteration of the loop over the entries, up to the loading of the files
CloudInitEntry ==
    /\ pc = "processCloudInitFiles"
    /\ i <= Len(config.CloudInitFiles)
    /\ LET hasContents == cloudInitFile.Contents # <<>>
           hasFiles == Len(cloudInitFile.Files) > 0 IN
       IF hasContents /\ hasFiles
          THEN /\ CloudInitError("mutually_exclusive")
               /\ UNCHANGED <<i, allContents>>
          ELSE IF ~hasContents /\ ~hasFiles
                  THEN /\ i' = i + 1
                       /\ UNCHANGED <<pc, result, allContents>>
                  ELSE IF hasFiles
                          THEN /\ allContents' = <<>>
                               /\ pc' = "ci_load"
                               /\ UNCHANGED <<i, result>>
                          ELSE /\ i' = i + 1
                               /\ UNCHANGED <<pc, result, allContents>>
    /\ UNCHANGED <<config, idleVars, ipVars, dsVars, fileSystem, rawCloudInitFiles>>

\* one iteration of the loop over the files of the entry
CloudInitLoadFile ==
    /\ pc = "ci_load"
    /\ Len(allContents) < Len(cloudInitFile.Files)
    /\ LET filePath == cloudInitFile.Files[Len(allContents) + 1] IN
       IF fileSystem[filePath].status = "missing"
          THEN /\ CloudInitError("file_not_found")
               /\ UNCHANGED allContents
          ELSE IF fileSystem[filePath].status = "unreadable"
                  THEN /\ CloudInitError("read_failed")
                       /\ UNCHANGED allContents
                  ELSE /\ allContents' = Append(allContents, fileSystem[filePath].contents)
                       /\ UNCHANGED <<pc, result>>
    /\ UNCHANGED <<config, i, idleVars, ipVars, dsVars, fileSystem, rawCloudInitFiles>>

\* the files are loaded: contents, files and the check of the contents
CloudInitConcatenate ==
    /\ pc = "ci_load"
    /\ Len(allContents) = Len(cloudInitFile.Files)
    /\ LET contents == Concatenate(allContents, 1) IN
       /\ config' = [config EXCEPT !.CloudInitFiles[i] =
                         Entry(cloudInitFile.Name, contents, <<>>)]
       /\ IF contents = <<>>
             THEN /\ CloudInitError("empty_contents")
                  /\ UNCHANGED i
             ELSE /\ i' = i + 1
                  /\ pc' = "processCloudInitFiles"
                  /\ UNCHANGED result
    /\ UNCHANGED <<allContents, idleVars, ipVars, dsVars, fileSystem, rawCloudInitFiles>>

CloudInitReturn ==
    /\ pc = "processCloudInitFiles"
    /\ i > Len(config.CloudInitFiles)
    /\ result' = [kind |-> "ok", err |-> ""]
    /\ pc' = "ci_done"
    /\ UNCHANGED <<config, i, idleVars, ipVars, dsVars, ciVars>>

FilePaths == {"f1", "f2"}

FileContents == {<<>>, <<"a">>, <<"b">>}

OnDisk(status, contents) == [status |-> status, contents |-> contents]

FileStates ==
    {OnDisk("missing", <<>>), OnDisk("unreadable", <<>>)}
        \cup {OnDisk("ok", c) : c \in FileContents}

FileSystems == [FilePaths -> FileStates]

EntryChoices ==
    {Entry("user-data", c, f) :
        c \in {<<>>, <<"a">>}, f \in {<<>>, <<"f1">>, <<"f1", "f2">>, <<"f2", "f1">>}}

EntryLists == UNION {[1..n -> EntryChoices] : n \in 0..MaxEntries}

InitCloudInit ==
    /\ config \in [CloudInitFiles : EntryLists]
    /\ rawCloudInitFiles = config.CloudInitFiles
    /\ fileSystem \in FileSystems
    /\ allContents = <<>>
    /\ pc = "processCloudInitFiles"
    /\ state = <<>>
    /\ step = 1
    /\ deferred = 0
    /\ cancelled = FALSE
    /\ i = 1
    /\ retries = 0
    /\ ticks = 0
    /\ importDiskKeys = <<>>
    /\ importDiskConfigs = <<>>
    /\ serverVM = "none"
    /\ resizeLog = <<>>
    /\ log = <<>>
    /\ result = [kind |-> "none", err |-> ""]
    /\ polls = <<>>
    /\ discoveredIPs = <<>>
    /\ lastDiscoveredIPs = <<>>
    /\ settleRestarts = 0
    /\ vmAPIResp = <<>>
    /\ vms = <<>>

NextCloudInit ==
    \/ CloudInitEntry
    \/ CloudInitLoadFile
    \/ CloudInitConcatenate
    \/ CloudInitReturn

SpecCloudInit == InitCloudInit /\ [][NextCloudInit]_vars

-----------------------------------------------------------------------------
(* Properties of the configuration of the cloud-init files *)

HasBoth(e) == e.Contents # <<>> /\ e.Files # <<>>

HasNeither(e) == e.Contents = <<>> /\ e.Files = <<>>

FilesOnly(e) == e.Contents = <<>> /\ e.Files # <<>>

\* the contents of the first n files of the list, joined by single newlines
RECURSIVE Joined(_, _)
Joined(files, n) ==
    IF n = 0 THEN <<>>
    ELSE IF n = 1 THEN fileSystem[files[1]].contents
    ELSE Joined(files, n - 1) \o <<"\n">> \o fileSystem[files[n]].contents

\* the entries the loop has gone through
Processed(n) ==
    \/ n < i
    \/ n = i /\ pc = "ci_done" /\ result.err = "empty_contents"

\* C23: a configuration with an entry that has contents and files ends in an error;
\* an entry with neither stays as it is and causes no error; an entry with files has
\* the contents of its files, in their order and joined by single newlines, as its
\* contents and an empty files list.
C23_CloudInitFileRules ==
    /\ (pc = "ci_done" /\ \E n \in DOMAIN rawCloudInitFiles : HasBoth(rawCloudInitFiles[n]))
          => result.kind = "error"
    /\ (result.err = "mutually_exclusive") => HasBoth(rawCloudInitFiles[i])
    /\ \A n \in DOMAIN rawCloudInitFiles :
          LET raw == rawCloudInitFiles[n]
              e == config.CloudInitFiles[n] IN
          /\ HasNeither(raw) =>
                /\ e = raw
                /\ (pc = "ci_done" /\ result.kind = "error") => i # n
          /\ (FilesOnly(raw) /\ Processed(n)) =>
                /\ e.Contents = Joined(raw.Files, Len(raw.Files))
                /\ e.Files = <<>>
                /\ e.Name = raw.Name

\* an entry without contents and files was skipped and an entry with two files of
\* different contents was loaded
C23_Witness ==
    /\ pc = "ci_done"
    /\ result.kind = "ok"
    /\ \E n \in DOMAIN rawCloudInitFiles : HasNeither(rawCloudInitFiles[n])
    /\ \E n \in DOMAIN rawCloudInitFiles :
          /\ rawCloudInitFiles[n].Files = <<"f2", "f1">>
          /\ config.CloudInitFiles[n].Contents = <<"b", "\n", "a">>

-----------------------------------------------------------------------------
(* VMApi.GetGuestAgentIPs, the guest-agent address query.  vm_api.go holds  *)
(* two definitions of it: the one of lines 376-452 skips the loopback       *)
(* addresses, the one of lines 1076-1148 does not.  config.Definition is    *)
(* the definition the build has, config.Http is the outcome of the GET,     *)
(* config.Body the payload: malformed, without agent_guest_info, or with    *)
(* the networks the guest agent reports, each a list of addresses.          *)

MaxInterfaces == 2

MaxAddresses == 2

IPAddresses(type, addr) == [IPAddressType |-> type, IPAddress |-> addr]

\* net.ParseIP(ipStr), then ip.IsLoopback(); a string that does not parse is no
\* loopback address
isLoopbackIP(ipStr) == ipStr \in {"127.0.0.1", "127.0.0.53", "::1"}

\* the inner loop, over the addresses of one network from position n on
RECURSIVE ScanAddresses(_, _, _, _)
ScanAddresses(ips, n, ipAddresses, skipLoopback) ==
    IF n > Len(ips) THEN ipAddresses
    ELSE LET ip == ips[n] IN
         IF ip.IPAddressType = "ipv4"
            THEN IF ip.IPAddress # ""
                    THEN IF skipLoopback /\ isLoopbackIP(ip.IPAddress)
                            THEN ScanAddresses(ips, n + 1, ipAddresses, skipLoopback)
                            ELSE ScanAddresses(ips, n + 1, Append(ipAddresses, ip.IPAddress),
                                               skipLoopback)
                    ELSE ScanAddresses(ips, n + 1, ipAddresses, skipLoopback)
            ELSE ScanAddresses(ips, n + 1, ipAddresses, skipLoopback)

\* the outer loop, over the networks from position n on
RECURSIVE ScanNetworks(_, _, _, _)
ScanNetworks(networks, n, ipAddresses, skipLoopback) ==
    IF n > Len(networks) THEN ipAddresses
    ELSE ScanNetworks(networks, n + 1,
                      ScanAddresses(networks[n], 1, ipAddresses, skipLoopback), skipLoopback)

\* the addresses returned for a body that was read: json.Unmarshal failed, or
\* AgentGuestInfo == nil, or the two loops
DecodeGuestAgent(body, skipLoopback) ==
    IF body.kind = "malformed" THEN <<>>
    ELSE IF body.kind = "no_info" THEN <<>>
    ELSE ScanNetworks(body.Network, 1, <<>>, skipLoopback)

\* the GET of GetGuestAgentIPs: a transport error, a nil response, a status that
\* is not 200 and a nil body are errors
GuestAgentGet ==
    /\ pc = "GetGuestAgentIPs"
    /\ IF config.Http = "ok"
          THEN /\ pc' = "ga_decode"
               /\ UNCHANGED result
          ELSE /\ result' = [kind |-> "error", err |-> config.Http, ips |-> <<>>]
               /\ pc' = "ga_done"
    /\ UNCHANGED <<config, i, idleVars, ipVars, dsVars, ciVars>>

\* the body is decoded and scanned by the definition of the build
GuestAgentDecode ==
    /\ pc = "ga_decode"
    /\ result' = [kind |-> "ips", err |-> "",
                  ips |-> DecodeGuestAgent(config.Body, config.Definition = 1)]
    /\ pc' = "ga_done"
    /\ UNCHANGED <<config, i, idleVars, ipVars, dsVars, ciVars>>

AddressChoices ==
    {IPAddresses(t, a) : t \in {"ipv4", "ipv6"}, a \in {"", "10.0.0.5", "127.0.0.1"}}

NetworkChoices == UNION {[1..n -> AddressChoices] : n \in 0..MaxAddresses}

Bodies ==
    {[kind |-> "malformed", Network |-> <<>>], [kind |-> "no_info", Network |-> <<>>]}
        \cup {[kind |-> "info", Network |-> nw] :
                 nw \in UNION {[1..n -> NetworkChoices] : n \in 0..MaxInterfaces}}

InitGuestAgent ==
    /\ config \in [Definition : {1, 2},
                   Http : {"get_error", "nil_response", "status", "nil_body", "ok"},
                   Body : Bodies]
    /\ pc = "GetGuestAgentIPs"
    /\ state = <<>>
    /\ step = 1
    /\ deferred = 0
    /\ cancelled = FALSE
    /\ i = 1
    /\ retries = 0
    /\ ticks = 0
    /\ importDiskKeys = <<>>
    /\ importDiskConfigs = <<>>
    /\ serverVM = "present"
    /\ resizeLog = <<>>
    /\ log = <<>>
    /\ result = [kind |-> "none", err |-> "", ips |-> <<>>]
    /\ polls = <<>>
    /\ discoveredIPs = <<>>
    /\ lastDiscoveredIPs = <<>>
    /\ settleRestarts = 0
    /\ NoQuery

NextGuestAgent ==
    \/ GuestAgentGet
    \/ GuestAgentDecode

SpecGuestAgent == InitGuestAgent /\ [][NextGuestAgent]_vars

-----------------------------------------------------------------------------
(* Properties of the guest-agent address query *)

\* the addresses of all networks, one after the other
RECURSIVE Flatten(_, _)
Flatten(networks, n) ==
    IF n > Len(networks) THEN <<>> ELSE networks[n] \o Flatten(networks, n + 1)

UsableIPv4(ip) ==
    /\ ip.IPAddressType = "ipv4"
    /\ ip.IPAddress # ""
    /\ ip.IPAddress \notin {"127.0.0.1", "127.0.0.53", "::1"}

RECURSIVE AddressesOf(_, _)
AddressesOf(flat, n) ==
    IF n > Len(flat) THEN <<>>
    ELSE (IF UsableIPv4(flat[n]) THEN <<flat[n].IPAddress>> ELSE <<>>)
            \o AddressesOf(flat, n + 1)

\* C36: a query whose GET succeeded returns, without error, the non-empty
\* addresses of type ipv4 that are no loopback addresses, in the order of the
\* networks and of their addresses; for a malformed body and for a body without
\* agent_guest_info it returns the empty list without error.
C36_NonLoopbackIPv4InOrder ==
    (pc = "ga_done" /\ config.Http = "ok") =>
        /\ result.err = ""
        /\ result.ips = IF config.Body.kind = "info"
                           THEN AddressesOf(Flatten(config.Body.Network, 1), 1)
                           ELSE <<>>

====
